---- MODULE Spec2Model ----
(***************************************************************************)
(* Request-orchestration pipeline of the GqX backend (src/backend):        *)
(* tenant authentication, the per-minute quota counter kept in Redis,      *)
(* retrieval augmentation, provider dispatch and the streaming relay.      *)
(*                                                                         *)
(* Conventions.  The Python value None is the string "None".  A request   *)
(* slot is one in-flight HTTP connection; when the response has been       *)
(* delivered the slot is closed and may carry a later request.  Fields of  *)
(* a slot that the handler itself does not hold (calls, rag, quota, seq,   *)
(* incr_at, sent, http_requests, failed, cancelled, conn) are history      *)
(* fields recording what the handler did.                                  *)
(***************************************************************************)
EXTENDS Integers, Sequences, FiniteSets, TLC

VARIABLES
    now,            \* time.time(), in whole seconds
    env,            \* process environment and importable packages (read-only)
    app_redis,      \* app.state.redis: "unset" (attribute never set), None, or "client"
    tenants,        \* tenants.json: tenant_id -> [name, api_key_hash]
    counters,       \* Redis keys quota:<tenant>:<bucket> -> [count, expire_at]
    collection,     \* the Chroma collection read by rag_indexer.query
    pinecone_index, \* the Pinecone index written by vector_store.upsert_documents
    req,            \* request slots
    arrivals,       \* number of requests received so far
    hits,           \* history: INCR commands executed per key since the start
    admitted,       \* history: requests that passed the quota comparison, per key
    redis_failed,   \* history: some Redis command raised a connection error
    index_queue,    \* the Redis list index_queue: [n, raw], n the enqueue call (history)
    pushes,         \* the _push coroutines scheduled by enqueue_documents
    enqueued,       \* history: the enqueue_documents calls and what they returned
    worker,         \* run_worker: its position and the item it holds
    upsert_calls    \* history: upsert_documents calls of enqueue_documents and the worker

\* The indexing queue and its worker.
indexVars == <<index_queue, pushes, enqueued, worker, upsert_calls>>

vars == <<now, env, app_redis, tenants, counters, collection, pinecone_index,
          req, arrivals, hits, admitted, redis_failed, indexVars>>

None == "None"

----------------------------------------------------------------------------
(* Program constants *)

WINDOW == 60
EXPIRE_SECONDS == 61
TOP_K == 3

(* Bounds of the model *)

MaxReqsPerMin == 1      \* value of MAX_REQS_PER_MIN in the environment
TickStep == 30          \* seconds by which the clock advances in one step
MaxTime == 90           \* the clock stops advancing here
MaxDocs == 2            \* documents ever indexed into the collection
MaxRequests == 3        \* requests received in one behaviour
MaxTasks == 2           \* enqueue_documents calls in one behaviour
PipelineRequests == 2   \* requests received where the quota is not the subject
WorkerTasks == 1        \* enqueue_documents calls, worker specification
IdTasks == 1            \* enqueue_documents calls, id-list specification
PairRequests == 3       \* requests received, /chat beside /chat/stream
AuthSlots == 1          \* concurrent connections, authentication specification
QuotaSlots == 1         \* concurrent connections, quota specification

NoExpiry == 0 - 1

----------------------------------------------------------------------------
(* Strings *)

\* str.lower() on the strings that occur as schemes and provider names.
Lower(s) ==
    CASE s = "Bearer" -> "bearer"
      [] s = "BEARER" -> "bearer"
      [] s = "Basic" -> "basic"
      [] s = "OLAMA" -> "olama"
      [] s = "OpenAI" -> "openai"
      [] s = "Gemini" -> "gemini"
      [] OTHER -> s

\* hashlib.sha256(api_key).hexdigest(): injective on the keys of the model,
\* and never equal to the key itself.
Sha256(api_key) == <<"sha256", api_key>>

----------------------------------------------------------------------------
(* Tenant store (auth.py, file-backed) *)

TenantIds == {"t1", "t2", "t3"}
ApiKeys == {"k1", "k2", "k3"}

\* auth.verify_api_key: the tenant whose stored hash equals the hash of the
\* presented key, else None.
verify_api_key(api_key) ==
    LET h == Sha256(api_key)
        match == {tid \in DOMAIN tenants : tenants[tid].api_key_hash = h}
    IN IF match = {} THEN None ELSE CHOOSE tid \in match : TRUE

\* Authorization header: absent (given = FALSE), or a string; empty is the
\* string "" and words is authorization.split().
NoHeader == [given |-> FALSE, empty |-> TRUE, words |-> <<>>]
EmptyHeader == [given |-> TRUE, empty |-> TRUE, words |-> <<>>]
HeaderOf(ws) == [given |-> TRUE, empty |-> FALSE, words |-> ws]

\* Mutant of get_tenant_from_header: the scheme is compared without lower().
get_tenant_from_header_case_sensitive(authorization) ==
    IF ~authorization.given \/ authorization.empty
    THEN [status |-> 401, detail |-> "Missing Authorization header", tenant_id |-> None]
    ELSE LET parts == authorization.words IN
         IF Len(parts) # 2 \/ parts[1] # "Bearer"
         THEN [status |-> 401, detail |-> "Invalid Authorization header", tenant_id |-> None]
         ELSE LET tid == verify_api_key(parts[2]) IN
              IF tid = None
              THEN [status |-> 403, detail |-> "Invalid API key", tenant_id |-> None]
              ELSE [status |-> 0, detail |-> "", tenant_id |-> tid]

\* main.get_tenant_from_header: [status, detail, tenant_id]; status 0 means
\* the dependency returned tenant_id.
get_tenant_from_header(authorization) ==
    IF ~authorization.given \/ authorization.empty
    THEN [status |-> 401, detail |-> "Missing Authorization header", tenant_id |-> None]
    ELSE LET parts == authorization.words IN
         IF Len(parts) # 2 \/ Lower(parts[1]) # "bearer"
         THEN [status |-> 401, detail |-> "Invalid Authorization header", tenant_id |-> None]
         ELSE LET tid == verify_api_key(parts[2]) IN
              IF tid = None
              THEN [status |-> 403, detail |-> "Invalid API key", tenant_id |-> None]
              ELSE [status |-> 0, detail |-> "", tenant_id |-> tid]

----------------------------------------------------------------------------
(* Provider registry and the placeholder / HTTP backends (providers.py) *)

PROVIDERS == {"gemini", "olama", "openai"}

\* providers.get_provider: the registered class for name.lower(), else None.
get_provider(name) ==
    IF Lower(name) \in PROVIDERS THEN Lower(name) ELSE None

Msg(role, content) == [role |-> role, content |-> content]

\* What the Gemini endpoint may answer to one HTTP request.
HttpOutcomes ==
    { [kind |-> "ok", code |-> "200", text |-> "Hello"],
      [kind |-> "status", code |-> "503", text |-> "busy"],
      [kind |-> "error", code |-> "", text |-> "timeout"] }

NoHttp == [kind |-> "none", code |-> "", text |-> ""]

Returned(text, n) == [raised |-> FALSE, text |-> text, requests |-> n]
Raised(what) == [raised |-> TRUE, text |-> what, requests |-> 0]

\* Mutant of GeminiAuthUsed: the API key is preferred to ADC.
GeminiAuthUsedKeyFirst ==
    IF env.GEMINI_API_KEY THEN "api_key"
    ELSE IF env.google_adc = "ok" THEN "adc"
    ELSE None

\* GeminiProvider credential resolution: ADC first, then the API key.
GeminiAuthUsed ==
    IF env.google_adc = "ok" THEN "adc"
    ELSE IF env.GEMINI_API_KEY THEN "api_key"
    ELSE None

\* The credentials a Gemini request carries: the Authorization header built
\* from the ADC token, or the key parameter.
GeminiRequest(auth_used) ==
    [authorization |-> auth_used = "adc", key |-> auth_used = "api_key"]

\* The requests a send_messages call has issued.
RequestsOf(res) ==
    IF res.requests = 0 THEN <<>> ELSE <<GeminiRequest(GeminiAuthUsed)>>

\* GeminiProvider.send_messages
GeminiSendMessages(messages, http) ==
    IF GeminiAuthUsed = None
    THEN Returned("(gemini) no credentials available; set GOOGLE_APPLICATION_CREDENTIALS or GEMINI_API_KEY", 0)
    ELSE IF messages = <<>>
    THEN Raised("list index out of range")
    ELSE CASE http.kind = "ok" -> Returned(http.text, 1)
           [] http.kind = "status" ->
                Returned("(gemini) HTTP " \o http.code \o ": " \o http.text, 1)
           [] OTHER -> Returned("(gemini) request failed: " \o http.text, 1)

\* OlamaProvider.send_messages
OlamaSendMessages(messages) ==
    IF ~env.OLAMA_URL
    THEN Returned("(olama) olama URL not configured", 0)
    ELSE IF messages = <<>>
    THEN Raised("list index out of range")
    ELSE Returned("(olama) Placeholder reply to: " \o messages[Len(messages)].content, 0)

\* OpenAIProvider.send_messages
OpenAISendMessages(messages) ==
    IF ~env.OPENAI_API_KEY
    THEN Returned("(openai) API key not set", 0)
    ELSE IF messages = <<>>
    THEN Raised("list index out of range")
    ELSE Returned("(openai) Placeholder reply to: " \o messages[Len(messages)].content, 0)

\* provider.send_messages(messages), by provider class.
SendMessages(provider, messages, http) ==
    CASE provider = "gemini" -> GeminiSendMessages(messages, http)
      [] provider = "olama" -> OlamaSendMessages(messages)
      [] OTHER -> OpenAISendMessages(messages)

\* The HTTP outcomes send_messages can meet: only Gemini issues a request,
\* and only when it has credentials and a last message.
HttpChoices(provider, messages) ==
    IF provider = "gemini" /\ GeminiAuthUsed # None /\ messages # <<>>
    THEN HttpOutcomes ELSE {NoHttp}

----------------------------------------------------------------------------
(* Retrieval (rag_indexer.py) and context assembly (main.py) *)

Min(a, b) == IF a < b THEN a ELSE b

Doc(text, tid) == [document |-> text, metadata |-> [tenant_id |-> tid]]

\* Every order in which the collection can rank its k nearest documents: the
\* embedding distances are not modelled, so any ranking is possible.
QueryResults(docs, k) ==
    LET n == Min(k, Len(docs))
        picks == {f \in [1..n -> 1..Len(docs)] :
                     \A i, j \in 1..n : i # j => f[i] # f[j]}
    IN {[i \in 1..n |-> docs[f[i]]] : f \in picks}

RagRaised == [raised |-> TRUE, docs |-> <<>>]
RagDocs(ds) == [raised |-> FALSE, docs |-> ds]

\* rag_indexer.query(query_text, k): raises when chromadb is not installed
\* (_init) or when the embedder or the collection query fails; [] when the
\* collection does not exist; else the k nearest documents of the whole
\* collection.
rag_query(k) ==
    IF ~env.chromadb THEN {RagRaised}
    ELSE IF ~collection.created THEN {RagDocs(<<>>)}
    ELSE {RagRaised} \cup {RagDocs(ds) : ds \in QueryResults(collection.docs, k)}

\* The content of the most recent message with role user, else None.
LastUser(messages) ==
    LET idx == {i \in 1..Len(messages) : messages[i].role = "user"}
    IN IF idx = {} THEN None
       ELSE messages[CHOOSE i \in idx : \A j \in idx : j <= i].content

Truthy(s) == s # None /\ s # ""

\* Mutant of RetrievalAttempted: retrieval runs before the provider lookup.
RetrievalBeforeLookup(provider, body) ==
    body.rag /\ Truthy(LastUser(body.messages))

\* The handler reaches rag_query only past the unknown-provider return, with
\* rag enabled and a non-empty last user content.
RetrievalAttempted(provider, body) ==
    provider # None /\ body.rag /\ Truthy(LastUser(body.messages))

RECURSIVE Join(_, _)
\* sep.join(texts)
Join(texts, sep) ==
    IF texts = <<>> THEN ""
    ELSE IF Len(texts) = 1 THEN texts[1]
    ELSE texts[1] \o sep \o Join(Tail(texts), sep)

\* Mutant of Assemble: the system message is inserted whatever docs holds.
AssembleAlways(messages, docs) ==
    <<Msg("system", "Relevant documents:\n"
            \o Join([i \in 1..Len(docs) |-> docs[i].document], "\n\n"))>>
    \o messages

\* Mutant of Assemble: the system message is appended after the conversation.
AssembleAppended(messages, docs) ==
    IF docs # <<>>
    THEN messages
         \o <<Msg("system", "Relevant documents:\n"
                 \o Join([i \in 1..Len(docs) |-> docs[i].document], "\n\n"))>>
    ELSE messages

\* messages_to_send after the retrieval block: the synthetic system message
\* is inserted at index 0 when docs is non-empty.
Assemble(messages, docs) ==
    IF docs # <<>>
    THEN <<Msg("system", "Relevant documents:\n"
                 \o Join([i \in 1..Len(docs) |-> docs[i].document], "\n\n"))>>
         \o messages
    ELSE messages

----------------------------------------------------------------------------
(* The Redis counter store *)

Buckets == 0..(MaxTime \div WINDOW)
Keys == TenantIds \X Buckets
NoKey == <<>>
Absent == [count |-> 0, expire_at |-> NoExpiry]

\* f"quota:{tenant_id}:{int(time.time()//60)}"
QuotaKey(tid, t) == <<tid, t \div WINDOW>>

Live(c, t) == c.count > 0 /\ (c.expire_at = NoExpiry \/ t < c.expire_at)

\* INCR key: atomic; a missing or expired key counts from 0 and has no TTL.
Incr(cs, k, t) ==
    [cs EXCEPT ![k] = IF Live(@, t) THEN [@ EXCEPT !.count = @ + 1]
                      ELSE [count |-> 1, expire_at |-> NoExpiry]]

\* EXPIRE key seconds: no effect on a missing key.
Expire(cs, k, t, seconds) ==
    [cs EXCEPT ![k] = IF Live(@, t) THEN [@ EXCEPT !.expire_at = t + seconds] ELSE @]

\* Redis drops the keys whose time to live has run out.
Purge(cs, t) == [k \in DOMAIN cs |-> IF Live(cs[k], t) THEN cs[k] ELSE Absent]

\* Mutant of Exceeds: the comparison is off by one.
ExceedsOffByOne(cur, max_per_min) == cur >= max_per_min

\* cur > max_per_min
Exceeds(cur, max_per_min) == cur > max_per_min

----------------------------------------------------------------------------
(* Streaming helpers (providers.py) *)

CHUNK_SIZE == 64
FALLBACK_CHUNK_SIZE == 128

RECURSIVE Chunks(_, _)
\* [reply[i:i+n] for i in range(0, len(reply), n)]
Chunks(reply, n) ==
    IF Len(reply) = 0 THEN <<>>
    ELSE <<SubSeq(reply, 1, Min(n, Len(reply)))>>
         \o Chunks(SubSeq(reply, Min(n, Len(reply)) + 1, Len(reply)), n)

\* Mutant of BaseChunks: the reply is yielded whole.
BaseChunksWhole(reply) == IF Len(reply) = 0 THEN <<>> ELSE <<reply>>

\* BaseProvider.send_messages_stream: the reply in slices of chunk_size.
BaseChunks(reply) == Chunks(reply, CHUNK_SIZE)

\* The text chunks a streaming Gemini response delivers when nothing fails.
UpstreamChunks == <<"Hel", "lo">>

----------------------------------------------------------------------------
(* Request slots *)

FileNames == {"a.txt"}

\* The ids under which vectors are upserted.
VectorIds == FileNames \cup {"doc_0", "doc_1", "doc_2", "x", "y"}

NoBody == [messages |-> <<>>, provider |-> "", rag |-> FALSE, file |-> None]
ChatBody(messages, provider, rag) ==
    [messages |-> messages, provider |-> provider, rag |-> rag, file |-> None]
UploadBody(file) == [NoBody EXCEPT !.file = file]

NoCalls == [rag |-> 0, incr |-> 0, expire |-> 0, backend |-> 0]

Idle ==
    [pc |-> "idle", endpoint |-> None, header |-> NoHeader, body |-> NoBody,
     tenant_id |-> None, status |-> 0, detail |-> "", provider |-> None,
     messages_to_send |-> <<>>,
     rag |-> [attempted |-> FALSE, raised |-> FALSE, docs |-> <<>>],
     key |-> NoKey, cur |-> 0, quota |-> "none", seq |-> 0, incr_at |-> 0,
     dispatched |-> FALSE, sent |-> <<>>, reply |-> None,
     gen |-> "none", pending |-> <<>>, chunks |-> <<>>,
     calls |-> NoCalls,
     http_requests |-> <<>>,  \* credentials carried by each backend request
     failed |-> FALSE,        \* the streaming request met a non-200 status or an error
     cancelled |-> FALSE,     \* the caller disconnected while the body was streamed
     conn |-> "none"]         \* the streamed backend response: none, open, released

Slots == DOMAIN req

\* An exception that is no HTTPException leaves the handler: FastAPI answers 500.
Crash(rec, what) ==
    [rec EXCEPT !.pc = "done", !.status = 500, !.detail = what]

\* raise HTTPException(status_code, detail)
Reject(rec, code, detail) ==
    [rec EXCEPT !.pc = "done", !.status = code, !.detail = detail]

----------------------------------------------------------------------------
(* Actions *)

\* Mutant of Receive: the request is counted against the tenant owning the
\* presented key before the header is validated.
ReceiveQuotaFirst(r, endpoint, header, body) ==
    /\ req[r].pc = "idle"
    /\ arrivals < MaxRequests
    /\ arrivals' = arrivals + 1
    /\ LET auth == get_tenant_from_header(header)
           rec == [Idle EXCEPT !.endpoint = endpoint, !.header = header,
                               !.body = body, !.tenant_id = auth.tenant_id]
           owner == IF Len(header.words) >= 2 THEN verify_api_key(header.words[2])
                    ELSE None
       IN /\ req' = [req EXCEPT ![r] =
                       IF auth.status = 0 THEN [rec EXCEPT !.pc = "handler"]
                       ELSE Reject(rec, auth.status, auth.detail)]
          /\ counters' = IF owner = None THEN counters
                         ELSE Incr(counters, QuotaKey(owner, now), now)
          /\ hits' = IF owner = None THEN hits
                     ELSE [hits EXCEPT ![QuotaKey(owner, now)] = @ + 1]
    /\ UNCHANGED <<indexVars, now, env, app_redis, tenants, collection,
                   pinecone_index, admitted, redis_failed>>

\* A request arrives and FastAPI resolves Depends(get_tenant_from_header)
\* before the handler body runs.
Receive(r, endpoint, header, body) ==
    /\ req[r].pc = "idle"
    /\ arrivals < MaxRequests
    /\ arrivals' = arrivals + 1
    /\ LET auth == get_tenant_from_header(header)
           rec == [Idle EXCEPT !.endpoint = endpoint, !.header = header,
                               !.body = body, !.tenant_id = auth.tenant_id]
       IN req' = [req EXCEPT ![r] =
                    IF auth.status = 0 THEN [rec EXCEPT !.pc = "handler"]
                    ELSE Reject(rec, auth.status, auth.detail)]
    /\ UNCHANGED <<indexVars, now, env, app_redis, tenants, counters, collection,
                   pinecone_index, hits, admitted, redis_failed>>

\* chat / chat_stream from the first line up to the first await: provider
\* lookup, retrieval and assembly, and the start of the quota block.  Reading
\* app.state.redis when it was never set, or calling .incr on None, raises
\* AttributeError, which the quota block catches.
ChatBegin(r) ==
    /\ req[r].pc = "handler"
    /\ req[r].endpoint \in {"chat", "stream"}
    /\ LET b == req[r].body
           provider == get_provider(b.provider)
           attempted == RetrievalAttempted(provider, b)
           calls == [req[r].calls EXCEPT !.rag = IF attempted THEN 1 ELSE 0]
       IN \E res \in (IF attempted THEN rag_query(TOP_K) ELSE {RagDocs(<<>>)}) :
            LET rec == [req[r] EXCEPT
                          !.provider = provider, !.calls = calls,
                          !.rag = [attempted |-> attempted, raised |-> res.raised,
                                   docs |-> res.docs]]
            IN req' = [req EXCEPT ![r] =
                 IF provider = None
                 THEN Reject(rec, 400, "Unknown provider")
                 ELSE [rec EXCEPT
                         !.messages_to_send = Assemble(b.messages, res.docs),
                         !.key = IF app_redis = "unset" THEN NoKey
                                 ELSE QuotaKey(req[r].tenant_id, now),
                         !.quota = IF app_redis = "client" THEN "none"
                                   ELSE "unconfigured",
                         !.pc = IF app_redis = "client" THEN "incr" ELSE "send"]]
    /\ UNCHANGED <<indexVars, now, env, app_redis, tenants, counters, collection,
                   pinecone_index, arrivals, hits, admitted, redis_failed>>

\* Mutant of QuotaDecision: chat_stream lets a request over the ceiling pass.
QuotaDecisionStreamPasses(rec, cur) ==
    IF Exceeds(cur, MaxReqsPerMin) /\ rec.endpoint # "stream"
    THEN [Reject(rec, 429, "Rate limit exceeded") EXCEPT !.quota = "reject"]
    ELSE [rec EXCEPT !.pc = "send", !.quota = "pass"]

\* The comparison that follows the counter commands.
QuotaDecision(rec, cur) ==
    IF Exceeds(cur, MaxReqsPerMin)
    THEN [Reject(rec, 429, "Rate limit exceeded") EXCEPT !.quota = "reject"]
    ELSE [rec EXCEPT !.pc = "send", !.quota = "pass"]

Admit(k, cur) ==
    IF Exceeds(cur, MaxReqsPerMin) THEN admitted
    ELSE [admitted EXCEPT ![k] = @ + 1]

\* cur = await redis.incr(key).  A connection error is no AttributeError and
\* no HTTPException: it leaves the handler.
RedisIncr(r) ==
    /\ req[r].pc = "incr"
    /\ \E reachable \in BOOLEAN :
         LET k == req[r].key
             calls == [req[r].calls EXCEPT !.incr = @ + 1]
         IN IF ~reachable
            THEN /\ req' = [req EXCEPT ![r] =
                        [Crash(@, "ConnectionError") EXCEPT
                            !.quota = "conn_error", !.calls = calls]]
                 /\ redis_failed' = TRUE
                 /\ UNCHANGED <<counters, hits, admitted>>
            ELSE LET cs == Incr(counters, k, now)
                     cur == cs[k].count
                     rec == [req[r] EXCEPT !.cur = cur, !.calls = calls,
                                           !.seq = hits[k] + 1, !.incr_at = now]
                 IN /\ counters' = cs
                    /\ hits' = [hits EXCEPT ![k] = @ + 1]
                    /\ IF cur = 1
                       THEN /\ req' = [req EXCEPT ![r] = [rec EXCEPT !.pc = "expire"]]
                            /\ UNCHANGED admitted
                       ELSE /\ req' = [req EXCEPT ![r] = QuotaDecision(rec, cur)]
                            /\ admitted' = Admit(k, cur)
                    /\ UNCHANGED redis_failed
    /\ UNCHANGED <<indexVars, now, env, app_redis, tenants, collection, pinecone_index, arrivals>>

\* await redis.expire(key, 61), issued by the request whose INCR returned 1.
RedisExpire(r) ==
    /\ req[r].pc = "expire"
    /\ \E reachable \in BOOLEAN :
         LET k == req[r].key
             calls == [req[r].calls EXCEPT !.expire = @ + 1]
         IN IF ~reachable
            THEN /\ req' = [req EXCEPT ![r] =
                        [Crash(@, "ConnectionError") EXCEPT
                            !.quota = "conn_error", !.calls = calls]]
                 /\ redis_failed' = TRUE
                 /\ UNCHANGED <<counters, admitted>>
            ELSE /\ counters' = Expire(counters, k, now, EXPIRE_SECONDS)
                 /\ req' = [req EXCEPT ![r] =
                        QuotaDecision([@ EXCEPT !.calls = calls], req[r].cur)]
                 /\ admitted' = Admit(k, req[r].cur)
                 /\ UNCHANGED redis_failed
    /\ UNCHANGED <<indexVars, now, env, app_redis, tenants, collection, pinecone_index,
                   arrivals, hits>>

\* reply = await provider.send_messages(messages_to_send); return {"reply": reply}
ChatSend(r) ==
    /\ req[r].pc = "send"
    /\ req[r].endpoint = "chat"
    /\ \E http \in HttpChoices(req[r].provider, req[r].messages_to_send) :
         LET res == SendMessages(req[r].provider, req[r].messages_to_send, http)
             rec == [req[r] EXCEPT !.dispatched = TRUE,
                                   !.sent = req[r].messages_to_send,
                                   !.calls.backend = @ + res.requests,
                                   !.http_requests = @ \o RequestsOf(res)]
         IN req' = [req EXCEPT ![r] =
                IF res.raised THEN Crash(rec, res.text)
                ELSE [rec EXCEPT !.pc = "done", !.status = 200, !.reply = res.text]]
    /\ UNCHANGED <<indexVars, now, env, app_redis, tenants, counters, collection,
                   pinecone_index, arrivals, hits, admitted, redis_failed>>

\* return StreamingResponse(event_stream(), ...): the response starts with
\* status 200; nothing of the generator has run yet.
StreamOpen(r) ==
    /\ req[r].pc = "send"
    /\ req[r].endpoint = "stream"
    /\ req' = [req EXCEPT ![r] = [@ EXCEPT !.pc = "streaming", !.status = 200,
                                            !.gen = "new"]]
    /\ UNCHANGED <<indexVars, now, env, app_redis, tenants, counters, collection,
                   pinecone_index, arrivals, hits, admitted, redis_failed>>

----------------------------------------------------------------------------
(* The streaming relay: event_stream driving provider.send_messages_stream *)

\* yield chunk to the client (then await asyncio.sleep(0)).
Relay(rec, chunk) == [rec EXCEPT !.chunks = Append(@, chunk)]

\* Leaving async with client.stream(...) closes the streamed response.
Release(rec) == [rec EXCEPT !.conn = IF @ = "open" THEN "released" ELSE @]

\* The generators end: the response body is complete.
Finish(rec) ==
    [Release(rec) EXCEPT !.pc = "done", !.gen = "closed", !.pending = <<>>]

\* event_stream's except Exception: one diagnostic chunk, then the end.
StreamError(rec, e) ==
    [Release(Relay(rec, "(stream-error) " \o e)) EXCEPT
        !.gen = "finishing", !.pending = <<>>]

\* for i in range(0, len(reply), n): yield reply[i:i+n]
RelayPending(rec, gen) ==
    IF rec.pending = <<>> THEN Finish(rec)
    ELSE [Relay(rec, Head(rec.pending)) EXCEPT !.pending = Tail(@), !.gen = gen]

Dispatched(rec) ==
    [rec EXCEPT !.dispatched = TRUE, !.sent = rec.messages_to_send]

\* BaseProvider.send_messages_stream, used by OlamaProvider and OpenAIProvider.
BaseStreamSteps(rec) ==
    CASE rec.gen = "new" ->
           LET res == SendMessages(rec.provider, rec.messages_to_send, NoHttp)
           IN IF res.raised THEN {StreamError(Dispatched(rec), res.text)}
              ELSE {RelayPending([Dispatched(rec) EXCEPT
                                     !.pending = BaseChunks(res.text)],
                                 "relay")}
      [] rec.gen = "relay" -> {RelayPending(rec, "relay")}
      [] OTHER -> {Finish(rec)}

\* GeminiProvider.send_messages_stream, except Exception branch: the reply of
\* send_messages in chunks of 128.
GeminiFallback(rec) ==
    { LET res == GeminiSendMessages(rec.messages_to_send, http)
      IN RelayPending([Release(rec) EXCEPT
                          !.failed = TRUE,
                          !.calls.backend = @ + res.requests,
                          !.http_requests = @ \o RequestsOf(res),
                          !.pending = Chunks(res.text, FALLBACK_CHUNK_SIZE)],
                      "relay")
      : http \in HttpChoices("gemini", rec.messages_to_send) }

\* GeminiProvider.send_messages_stream.  No credential check precedes the
\* request; messages[-1] is read before the client is opened.
GeminiStreamSteps(rec) ==
    CASE rec.gen = "new" ->
           IF rec.messages_to_send = <<>>
           THEN {StreamError(Dispatched(rec), "list index out of range")}
           ELSE LET rec1 == [Dispatched(rec) EXCEPT
                                !.calls.backend = @ + 1,
                                !.http_requests =
                                    Append(@, GeminiRequest(GeminiAuthUsed))]
                IN UNION {
                     CASE http.kind = "status" ->
                            {[Relay(rec1, "(gemini) HTTP " \o http.code \o ": " \o http.text)
                                EXCEPT !.gen = "last", !.conn = "open",
                                       !.failed = TRUE]}
                       [] http.kind = "ok" ->
                            {[rec1 EXCEPT !.gen = "body", !.conn = "open",
                                          !.pending = UpstreamChunks]}
                       [] OTHER -> GeminiFallback(rec1)
                     : http \in HttpOutcomes }
      [] rec.gen = "body" ->
           \* the next text chunk, or the end of the body
           {RelayPending(rec, "body")}
           \* aiter_text raises; resp.aread() gives the body if none of it
           \* was consumed
           \cup (IF rec.pending = UpstreamChunks
                 THEN {[Relay(rec, Join(UpstreamChunks, "")) EXCEPT
                           !.gen = "last", !.pending = <<>>, !.failed = TRUE]}
                 ELSE {})
           \* aiter_text raises and resp.aread() raises too
           \cup GeminiFallback([rec EXCEPT !.pending = <<>>])
      [] rec.gen = "relay" -> {RelayPending(rec, "relay")}
      [] OTHER -> {Finish(rec)}

\* One resumption of event_stream: up to the next chunk it yields, the next
\* await inside the provider's generator, or its end.
StreamNext(r) ==
    /\ req[r].pc = "streaming"
    /\ \E rec \in (IF req[r].provider = "gemini" THEN GeminiStreamSteps(req[r])
                   ELSE BaseStreamSteps(req[r])) :
         req' = [req EXCEPT ![r] = rec]
    /\ UNCHANGED <<indexVars, now, env, app_redis, tenants, counters, collection,
                   pinecone_index, arrivals, hits, admitted, redis_failed>>

\* Mutant of Disconnect: the cancellation is caught by the except Exception
\* clause around client.stream, which answers with the non-streaming reply.
DisconnectCaught(r) ==
    /\ req[r].pc = "streaming"
    /\ \E rec \in (IF req[r].provider = "gemini" /\ req[r].gen = "body"
                   THEN GeminiFallback([req[r] EXCEPT !.cancelled = TRUE,
                                                      !.pending = <<>>])
                   ELSE {[Finish(req[r]) EXCEPT !.cancelled = TRUE]}) :
         req' = [req EXCEPT ![r] = rec]
    /\ UNCHANGED <<indexVars, now, env, app_redis, tenants, counters, collection,
                   pinecone_index, arrivals, hits, admitted, redis_failed>>

\* The caller disconnects while the body is streamed: the relay is cancelled
\* at the point where it is suspended.  CancelledError and GeneratorExit are
\* no Exception, so neither event_stream's nor the provider's except clauses
\* run; the generators unwind through their async with blocks.
Disconnect(r) ==
    /\ req[r].pc = "streaming"
    /\ req' = [req EXCEPT ![r] = [Finish(@) EXCEPT !.cancelled = TRUE]]
    /\ UNCHANGED <<indexVars, now, env, app_redis, tenants, counters, collection,
                   pinecone_index, arrivals, hits, admitted, redis_failed>>

----------------------------------------------------------------------------
(* Uploads, tenants, indexing, time *)

\* vector_store.upsert_documents: with Pinecone configured the vectors are
\* upserted under their ids; without it the statement idx.upsert(to_upsert)
\* at function level reads the unassigned local idx.
upsert_documents(ids, tenant_id) ==
    IF env.use_pinecone
    THEN [raised |-> FALSE,
          index |-> [f \in DOMAIN pinecone_index |->
                       IF f \in ids THEN tenant_id ELSE pinecone_index[f]]]
    ELSE [raised |-> TRUE, index |-> pinecone_index]

\* upload_and_index: write the file, then upsert_documents([text], ids=[filename]).
UploadHandler(r) ==
    /\ req[r].pc = "handler"
    /\ req[r].endpoint = "upload"
    /\ \E written \in BOOLEAN :
         IF ~written
         THEN /\ req' = [req EXCEPT ![r] = Reject(@, 500, "OSError")]
              /\ UNCHANGED pinecone_index
         ELSE LET res == upsert_documents({req[r].body.file}, req[r].tenant_id)
              IN /\ pinecone_index' = res.index
                 /\ req' = [req EXCEPT ![r] =
                        IF res.raised THEN Crash(@, "UnboundLocalError")
                        ELSE [@ EXCEPT !.pc = "done", !.status = 200]]
    /\ UNCHANGED <<indexVars, now, env, app_redis, tenants, counters, collection,
                   arrivals, hits, admitted, redis_failed>>

\* auth.create_tenant: a fresh tenant id and a fresh key, stored hashed.
TenantCreate(tid, api_key) ==
    /\ tid \notin DOMAIN tenants
    /\ \A t \in DOMAIN tenants : tenants[t].api_key_hash # Sha256(api_key)
    /\ tenants' = [t \in DOMAIN tenants \cup {tid} |->
                     IF t = tid THEN [name |-> "acme", api_key_hash |-> Sha256(api_key)]
                     ELSE tenants[t]]
    /\ UNCHANGED <<indexVars, now, env, app_redis, counters, collection, pinecone_index,
                   req, arrivals, hits, admitted, redis_failed>>

\* rag_indexer.index_texts([text], metadatas=[{"tenant_id": tid}])
IndexTexts(text, tid) ==
    /\ env.chromadb
    /\ Len(collection.docs) < MaxDocs
    /\ collection' = [created |-> TRUE, docs |-> Append(collection.docs, Doc(text, tid))]
    /\ UNCHANGED <<indexVars, now, env, app_redis, tenants, counters, pinecone_index,
                   req, arrivals, hits, admitted, redis_failed>>

\* The response has been delivered and the connection is closed.
Close(r) ==
    /\ req[r].pc = "done"
    /\ req' = [req EXCEPT ![r] = Idle]
    /\ UNCHANGED <<indexVars, now, env, app_redis, tenants, counters, collection,
                   pinecone_index, arrivals, hits, admitted, redis_failed>>

\* Time passes; Redis reclaims the keys whose time to live has run out.
Tick ==
    /\ now + TickStep <= MaxTime
    /\ now' = now + TickStep
    /\ counters' = Purge(counters, now')
    /\ UNCHANGED <<indexVars, env, app_redis, tenants, collection, pinecone_index,
                   req, arrivals, hits, admitted, redis_failed>>

----------------------------------------------------------------------------
(* The indexing queue (vector_store.enqueue_documents) and run_worker *)

\* REDIS_URL is set exactly when startup_event assigned app.state.redis.
REDIS_URL == app_redis # "unset"

\* Optional[List[str]]: None, or a list.
NoIds == [given |-> FALSE, list |-> <<>>]
IdsOf(list) == [given |-> TRUE, list |-> list]

\* f"doc_{i}"
DocId(i) ==
    CASE i = 0 -> "doc_0"
      [] i = 1 -> "doc_1"
      [] i = 2 -> "doc_2"
      [] OTHER -> "doc_n"

\* [f"doc_{i}" for i in range(len(texts))]
AutoIds(texts) == [i \in 1..Len(texts) |-> DocId(i - 1)]

\* ids or [f"doc_{i}" ...]: None and the empty list are both replaced.
TaskIds(texts, ids) ==
    IF ids.given /\ ids.list # <<>> THEN ids.list ELSE AutoIds(texts)

\* upsert_documents: if ids is None: ids = [f"doc_{i}" ...]
UpsertIds(texts, ids) == IF ids.given THEN ids.list ELSE AutoIds(texts)

(* json: a document is a sequence of tokens; a string is one token, so the  *)
(* escaping of its characters is not represented.                          *)
Punct(c) == [t |-> "punct", v |-> c]
Str(s) == [t |-> "string", v |-> s]
Null == [t |-> "null", v |-> ""]

RECURSIVE DumpItems(_)
DumpItems(xs) ==
    IF xs = <<>> THEN <<>>
    ELSE IF Len(xs) = 1 THEN <<Str(xs[1])>>
    ELSE <<Str(xs[1]), Punct(",")>> \o DumpItems(Tail(xs))

DumpList(xs) == <<Punct("[")>> \o DumpItems(xs) \o <<Punct("]")>>

DumpScalar(v) == IF v = None THEN <<Null>> ELSE <<Str(v)>>

\* Mutant of JsonDumps: the lists are written under each other's key.
JsonDumpsSwapped(task) ==
    <<Punct("{"), Str("texts"), Punct(":")>> \o DumpList(task.ids)
    \o <<Punct(","), Str("ids"), Punct(":")>> \o DumpList(task.texts)
    \o <<Punct(","), Str("tenant_id"), Punct(":")>> \o DumpScalar(task.tenant_id)
    \o <<Punct("}")>>

\* json.dumps(task), task = {'texts': ..., 'ids': ..., 'tenant_id': ...}
JsonDumps(task) ==
    <<Punct("{"), Str("texts"), Punct(":")>> \o DumpList(task.texts)
    \o <<Punct(","), Str("ids"), Punct(":")>> \o DumpList(task.ids)
    \o <<Punct(","), Str("tenant_id"), Punct(":")>> \o DumpScalar(task.tenant_id)
    \o <<Punct("}")>>

RECURSIVE LoadItems(_, _)
\* The elements of an array read from token i on; next is the token after "]".
LoadItems(raw, i) ==
    IF raw[i] = Punct("]") THEN [val |-> <<>>, next |-> i + 1]
    ELSE LET rest == IF raw[i + 1] = Punct(",") THEN LoadItems(raw, i + 2)
                     ELSE [val |-> <<>>, next |-> i + 2]
         IN [val |-> <<raw[i].v>> \o rest.val, next |-> rest.next]

\* One value read at token i: an array, null or a string.
LoadValue(raw, i) ==
    IF raw[i] = Punct("[") THEN LoadItems(raw, i + 1)
    ELSE IF raw[i] = Null THEN [val |-> None, next |-> i + 1]
    ELSE [val |-> raw[i].v, next |-> i + 1]

RECURSIVE LoadMembers(_, _)
\* The members of an object read from token i on, in document order.
LoadMembers(raw, i) ==
    IF raw[i] = Punct("}") THEN <<>>
    ELSE LET v == LoadValue(raw, i + 2)
         IN <<[key |-> raw[i].v, val |-> v.val]>>
            \o (IF raw[v.next] = Punct(",") THEN LoadMembers(raw, v.next + 1)
                ELSE <<>>)

\* json.loads(raw)
JsonLoads(raw) == LoadMembers(raw, 2)

\* dict.get(key)
Get(obj, key) ==
    LET idx == {i \in 1..Len(obj) : obj[i].key = key}
    IN IF idx = {} THEN None ELSE obj[CHOOSE i \in idx : TRUE].val

\* run_worker after it has connected: about to call blpop, holding nothing.
\* last_error and errors_at are history: the kind of the last error handled
\* and the number of enqueue_documents calls made before it.
WorkerStart ==
    [pc |-> "blpop", n |-> 0, raw |-> <<>>, last_error |-> "none", errors_at |-> 0]

\* Mutant of WorkerError: the exception leaves run_worker.
WorkerErrorExits(kind) ==
    [pc |-> "stopped", n |-> 0, raw |-> <<>>, last_error |-> kind,
     errors_at |-> Len(enqueued)]

\* except Exception as e: logger.exception(...), then await asyncio.sleep(1).
\* The item being processed, if any, is dropped.
WorkerError(kind) ==
    [pc |-> "backoff", n |-> 0, raw |-> <<>>, last_error |-> kind,
     errors_at |-> Len(enqueued)]

\* Items no enqueue_documents call wrote: a truncated document, and a JSON
\* string, which json.loads accepts and task.get rejects.
ForeignItems == {<<Punct("{")>>, <<Str("not a task")>>}

\* json.loads(raw) returns a dict: raw is an object from "{" to "}".
Decodes(raw) ==
    /\ Len(raw) >= 2
    /\ raw[1] = Punct("{")
    /\ raw[Len(raw)] = Punct("}")

Range(xs) == {xs[i] : i \in 1..Len(xs)}

\* What the request pipeline owns, the Pinecone index apart.
requestVars == <<now, env, app_redis, tenants, counters, collection,
                 req, arrivals, hits, admitted, redis_failed>>

\* {"upserted": len(ids), "provider": "pinecone"}
UpsertReceipt(ids) == [upserted |-> Len(ids), provider |-> "pinecone"]

\* {'enqueued': len(task['ids'])}
EnqueueReceipt(task) == [enqueued |-> Len(task.ids)]

\* The call raised: nothing is returned.
NoReceipt == <<>>

\* One upsert_documents call as the log keeps it.
UpsertCall(by, n, texts, ids, tenant_id, raised) ==
    [by |-> by, n |-> n, texts |-> texts, ids |-> ids, tenant_id |-> tenant_id,
     raised |-> raised]

\* enqueue_documents(texts, ids, tenant_id).  With REDIS_URL set and a running
\* event loop the _push coroutine is scheduled and the receipt returned at
\* once; without REDIS_URL, or when create_task raises because no loop is
\* running, upsert_documents is called in line with the caller's ids.
Enqueue(texts, ids, tenant_id, running_loop) ==
    /\ Len(enqueued) < MaxTasks
    /\ LET n == Len(enqueued) + 1
           task == [texts |-> texts, ids |-> TaskIds(texts, ids),
                    tenant_id |-> tenant_id]
           call == [texts |-> texts, ids |-> ids, tenant_id |-> tenant_id]
       IN IF REDIS_URL /\ running_loop
          THEN /\ pushes' = Append(pushes, [n |-> n, task |-> task, pc |-> "scheduled"])
               /\ enqueued' = Append(enqueued,
                     [call |-> call, path |-> "queue", raised |-> FALSE,
                      receipt |-> EnqueueReceipt(task)])
               /\ UNCHANGED <<pinecone_index, upsert_calls>>
          ELSE LET uids == UpsertIds(texts, ids)
                   res == upsert_documents(Range(uids), tenant_id)
               IN /\ pinecone_index' = res.index
                  /\ upsert_calls' = Append(upsert_calls,
                        UpsertCall("enqueue", n, texts, uids, tenant_id, res.raised))
                  /\ enqueued' = Append(enqueued,
                        [call |-> call, path |-> "sync", raised |-> res.raised,
                         receipt |-> IF res.raised THEN NoReceipt
                                     ELSE UpsertReceipt(uids)])
                  /\ UNCHANGED pushes
    /\ UNCHANGED <<requestVars, index_queue, worker>>

\* _push starts: r = await aioredis.from_url(REDIS_URL).  The event loop
\* starts the scheduled tasks in the order in which they were created.
PushOpen(i) ==
    /\ pushes[i].pc = "scheduled"
    /\ \A j \in 1..(i - 1) : pushes[j].pc # "scheduled"
    /\ pushes' = [pushes EXCEPT ![i].pc = "client"]
    /\ UNCHANGED <<requestVars, pinecone_index, index_queue, enqueued, worker,
                   upsert_calls>>

\* await r.rpush('index_queue', json.dumps(task)): the client connects and
\* Redis appends the item, or the command raises and the task ends with an
\* exception nobody retrieves.
PushRpush(i) ==
    /\ pushes[i].pc = "client"
    /\ \E reachable \in BOOLEAN :
         IF reachable
         THEN /\ index_queue' = Append(index_queue,
                    [n |-> pushes[i].n, raw |-> JsonDumps(pushes[i].task)])
              /\ pushes' = [pushes EXCEPT ![i].pc = "done"]
         ELSE /\ pushes' = [pushes EXCEPT ![i].pc = "failed"]
              /\ UNCHANGED index_queue
    /\ UNCHANGED <<requestVars, pinecone_index, enqueued, worker, upsert_calls>>

\* Another client appends an item to index_queue.
ForeignPush(raw) ==
    /\ \A i \in 1..Len(pushes) : pushes[i].pc # "foreign"
    /\ pushes' = Append(pushes, [n |-> 0, task |-> raw, pc |-> "foreign"])
    /\ index_queue' = Append(index_queue, [n |-> 0, raw |-> raw])
    /\ UNCHANGED <<requestVars, pinecone_index, enqueued, worker, upsert_calls>>

\* item = await redis.blpop('index_queue', timeout=5) returns the head of the
\* list; on a timeout the loop sleeps and calls blpop again.
WorkerPop ==
    /\ worker.pc = "blpop"
    /\ index_queue # <<>>
    /\ worker' = [worker EXCEPT !.pc = "process", !.n = Head(index_queue).n,
                                !.raw = Head(index_queue).raw]
    /\ index_queue' = Tail(index_queue)
    /\ UNCHANGED <<requestVars, pinecone_index, pushes, enqueued, upsert_calls>>

\* blpop raises (the connection to Redis is lost): nothing is popped.
WorkerReadError ==
    /\ worker.pc = "blpop"
    /\ worker' = WorkerError("read")
    /\ UNCHANGED <<requestVars, pinecone_index, index_queue, pushes, enqueued,
                   upsert_calls>>

WorkerBlpop == WorkerPop \/ WorkerReadError

\* The sleep of the except clause is over: while True starts again.
WorkerBackoff ==
    /\ worker.pc = "backoff"
    /\ worker' = [worker EXCEPT !.pc = "blpop"]
    /\ UNCHANGED <<requestVars, pinecone_index, index_queue, pushes, enqueued,
                   upsert_calls>>

\* task = json.loads(raw); upsert_documents(texts, ids=ids, tenant_id=...).
\* Whatever upsert_documents raises (Pinecone unreachable, or the unassigned
\* idx) is logged by except Exception and the loop goes on to the next item.
WorkerProcess ==
    /\ worker.pc = "process"
    /\ IF ~Decodes(worker.raw)
       THEN /\ worker' = WorkerError("decode")
            /\ UNCHANGED <<pinecone_index, upsert_calls>>
       ELSE \E available \in BOOLEAN :
         LET task == JsonLoads(worker.raw)
             texts == Get(task, "texts")
             ids == UpsertIds(texts, IdsOf(Get(task, "ids")))
             tenant_id == Get(task, "tenant_id")
             res == IF available THEN upsert_documents(Range(ids), tenant_id)
                    ELSE [raised |-> TRUE, index |-> pinecone_index]
         IN /\ pinecone_index' = res.index
            /\ upsert_calls' = Append(upsert_calls,
                  UpsertCall("worker", worker.n, texts, ids, tenant_id, res.raised))
            /\ worker' = IF res.raised THEN WorkerError("upsert")
                         ELSE [worker EXCEPT !.pc = "blpop", !.n = 0, !.raw = <<>>]
    /\ UNCHANGED <<requestVars, index_queue, pushes, enqueued>>

----------------------------------------------------------------------------
(* Inputs *)

GoodHeaders == {HeaderOf(<<"Bearer", "k1">>), HeaderOf(<<"bearer", "k2">>)}

Headers ==
    GoodHeaders \cup
    { NoHeader, EmptyHeader,
      HeaderOf(<<"BEARER", "k3">>),
      HeaderOf(<<"Basic", "k1">>),
      HeaderOf(<<"Bearer">>),
      HeaderOf(<<"Bearer", "k1", "x">>) }

Ten == "0123456789"

\* A content of 98 characters: the placeholder replies to it are 128 (olama)
\* and 129 (openai) characters long.
LongText == Ten \o Ten \o Ten \o Ten \o Ten \o Ten \o Ten \o Ten \o Ten \o "01234567"

MessageLists ==
    { <<>>,
      <<Msg("user", "q1")>>,
      <<Msg("assistant", "a1")>>,
      <<Msg("user", "q1"), Msg("assistant", "a1")>>,
      <<Msg("user", "")>>,
      <<Msg("user", LongText)>> }

ProviderNames == {"OLAMA", "openai", "gemini", "made-up"}

DefaultBody == ChatBody(<<Msg("user", "q1")>>, "olama", FALSE)

Bodies ==
    {ChatBody(ms, p, rag) : ms \in MessageLists, p \in ProviderNames, rag \in BOOLEAN}

Documents == {Doc("A", "t1"), Doc("B", "t2")}

\* The calls of enqueue_documents: one or two texts, ids omitted or given,
\* with or without a tenant.
EnqueueInputs ==
    {[texts |-> ts, ids |-> ids, tenant_id |-> tid] :
        ts \in {<<"A">>, <<"A", "B">>},
        ids \in {NoIds, IdsOf(<<"x">>), IdsOf(<<"x", "y">>)},
        tid \in {"t1", None}}

EnvAll ==
    [OLAMA_URL |-> TRUE, OPENAI_API_KEY |-> TRUE, GEMINI_API_KEY |-> TRUE,
     google_adc |-> "ok", chromadb |-> TRUE, use_pinecone |-> TRUE]

EnvKeyOnly == [EnvAll EXCEPT !.google_adc = "fail", !.use_pinecone = FALSE]

EnvBare ==
    [OLAMA_URL |-> FALSE, OPENAI_API_KEY |-> FALSE, GEMINI_API_KEY |-> FALSE,
     google_adc |-> "absent", chromadb |-> FALSE, use_pinecone |-> FALSE]

----------------------------------------------------------------------------
(* Specifications *)

\* The state after startup_event, with the connection slots given.
InitWith(slots, envs, redis_states) ==
    /\ now = 0
    /\ env \in envs
    /\ app_redis \in redis_states
    /\ tenants = [t \in {"t1", "t2"} |->
                    [name |-> t, api_key_hash |-> Sha256(IF t = "t1" THEN "k1" ELSE "k2")]]
    /\ counters = [k \in Keys |-> Absent]
    /\ collection = [created |-> FALSE, docs |-> <<>>]
    /\ pinecone_index = [f \in VectorIds |-> None]
    /\ req = [r \in slots |-> Idle]
    /\ arrivals = 0
    /\ hits = [k \in Keys |-> 0]
    /\ admitted = [k \in Keys |-> 0]
    /\ redis_failed = FALSE
    /\ index_queue = <<>>
    /\ pushes = <<>>
    /\ enqueued = <<>>
    /\ worker = WorkerStart
    /\ upsert_calls = <<>>

\* The steps of a chat or chat/stream request that has been received.
ChatSteps(r) ==
    \/ ChatBegin(r)
    \/ RedisIncr(r)
    \/ RedisExpire(r)
    \/ ChatSend(r)
    \/ StreamOpen(r)
    \/ StreamNext(r)
    \/ Disconnect(r)
    \/ Close(r)

\* The pipeline: the chat requests of one tenant over every body, one after
\* another on a single connection, and indexing.  The handlers run from their
\* first line to the first counter command without suspension, so what they
\* assemble does not depend on other connections; those are the subject of
\* SpecAuth and SpecQuota.
Init == InitWith({1}, {EnvAll, EnvKeyOnly, EnvBare}, {"client"})

Next ==
    \/ \E r \in Slots :
         \/ \E ep \in {"chat", "stream"}, b \in Bodies :
              /\ arrivals < PipelineRequests
              /\ Receive(r, ep, HeaderOf(<<"Bearer", "k1">>), b)
         \/ ChatSteps(r)
    \/ \E d \in Documents : IndexTexts(d.document, d.metadata.tenant_id)

Spec == Init /\ [][Next]_vars

\* Authentication: every header on every authenticated endpoint.
InitAuth == InitWith(1..AuthSlots, {EnvAll, EnvKeyOnly}, {"client"})

NextAuth ==
    \/ \E r \in Slots :
         \/ \E ep \in {"chat", "stream"}, h \in Headers :
              /\ arrivals < PipelineRequests
              /\ Receive(r, ep, h, DefaultBody)
         \/ \E h \in Headers, f \in FileNames :
              /\ arrivals < PipelineRequests
              /\ Receive(r, "upload", h, UploadBody(f))
         \/ UploadHandler(r)
         \/ ChatSteps(r)
    \/ TenantCreate("t3", "k3")

SpecAuth == InitAuth /\ [][NextAuth]_vars

\* The quota counter: concurrent requests of two tenants while time passes.
InitQuota == InitWith(1..QuotaSlots, {EnvAll}, {"unset", None, "client"})

NextQuota ==
    \/ \E r \in Slots :
         \/ \E ep \in {"chat", "stream"}, h \in GoodHeaders : Receive(r, ep, h, DefaultBody)
         \/ ChatSteps(r)
    \/ Tick

SpecQuota == InitQuota /\ [][NextQuota]_vars

\* The indexing queue: enqueue_documents called with and without REDIS_URL,
\* the scheduled pushes and the worker, Pinecone configured or not.  The
\* worker's reads of the queue succeed and nobody else writes to the queue;
\* SpecWorker lifts both restrictions.
InitIndex == InitWith({1}, {EnvAll, EnvKeyOnly}, {"unset", "client"})

NextIndex ==
    \/ \E inp \in EnqueueInputs, running_loop \in BOOLEAN :
         /\ inp.ids.given => Len(inp.ids.list) = Len(inp.texts)
         /\ Enqueue(inp.texts, inp.ids, inp.tenant_id, running_loop)
    \/ \E i \in 1..Len(pushes) : PushOpen(i)
    \/ \E i \in 1..Len(pushes) : PushRpush(i)
    \/ WorkerPop
    \/ WorkerProcess
    \/ WorkerBackoff

SpecIndex == InitIndex /\ [][NextIndex]_vars

\* /chat beside /chat/stream: connection 1 posts to /chat, connection 2 to
\* /chat/stream, as the same tenant and over the same bodies, with or without
\* Redis, while documents are indexed.
PairBodies ==
    { ChatBody(<<Msg("user", "q1")>>, "olama", TRUE),
      ChatBody(<<Msg("user", "q1")>>, "made-up", TRUE),
      ChatBody(<<Msg("assistant", "a1")>>, "openai", TRUE) }

InitPair == InitWith({1, 2}, {EnvAll}, {"unset", "client"})

NextPair ==
    \/ \E b \in PairBodies :
         /\ arrivals < PairRequests
         /\ Receive(1, "chat", HeaderOf(<<"Bearer", "k1">>), b)
    \/ \E b \in PairBodies :
         /\ arrivals < PairRequests
         /\ Receive(2, "stream", HeaderOf(<<"Bearer", "k1">>), b)
    \/ \E r \in Slots : ChatSteps(r)
    \/ IndexTexts("A", "t1")

SpecPair == InitPair /\ [][NextPair]_vars

\* The id lists callers may pass: omitted, empty, one id for two texts, the
\* same id twice.  A list longer than the texts is left out: the Pinecone
\* branch indexes the vectors by the positions of the ids.
IdInputs ==
    {[texts |-> ts, ids |-> ids, tenant_id |-> "t1"] :
        ts \in {<<"A">>, <<"A", "B">>},
        ids \in {NoIds, IdsOf(<<>>), IdsOf(<<"x">>), IdsOf(<<"x", "x">>),
                 IdsOf(<<"x", "y">>)}}

NextIds ==
    \/ \E inp \in IdInputs, running_loop \in BOOLEAN :
         /\ Len(enqueued) < IdTasks
         /\ Len(inp.ids.list) <= Len(inp.texts)
         /\ Enqueue(inp.texts, inp.ids, inp.tenant_id, running_loop)
    \/ \E i \in 1..Len(pushes) : PushOpen(i)
    \/ \E i \in 1..Len(pushes) : PushRpush(i)
    \/ WorkerPop
    \/ WorkerProcess
    \/ WorkerBackoff

SpecIds == InitIndex /\ [][NextIds]_vars

\* The worker loop under every processing error: failing reads of the queue,
\* items it cannot decode, and failing upserts.  The worker is scheduled
\* whenever it can run (weak fairness of its steps), and reads of the queue
\* do not fail forever (strong fairness of the successful blpop).
InitWorker == InitWith({1}, {EnvAll}, {"client"})

NextWorker ==
    \/ /\ Len(enqueued) < WorkerTasks
       /\ Enqueue(<<"A">>, NoIds, "t1", TRUE)
    \/ \E i \in 1..Len(pushes) : PushOpen(i)
    \/ \E i \in 1..Len(pushes) : PushRpush(i)
    \/ \E raw \in ForeignItems : ForeignPush(raw)
    \/ WorkerPop
    \/ WorkerReadError
    \/ WorkerProcess
    \/ WorkerBackoff

SpecWorker ==
    /\ InitWorker
    /\ [][NextWorker]_vars
    /\ WF_vars(WorkerProcess)
    /\ WF_vars(WorkerBackoff)
    /\ SF_vars(WorkerPop)

----------------------------------------------------------------------------
(* Claims *)

\* C1: with the counter backend configured and reachable, the number of
\* requests admitted on one key quota:T:W never exceeds the ceiling, however
\* the /chat and /chat/stream requests of T interleave.
C1_CeilingNeverExceeded ==
    (app_redis = "client" /\ ~redis_failed) =>
        \A k \in Keys : admitted[k] <= MaxReqsPerMin

\* C2: a request whose increment the counter store executes inside the bucket
\* its key names is admitted exactly when it is at most the ceiling-th
\* increment of that key, and is otherwise rejected with 429 and never
\* dispatched; only the increments of its own (tenant, bucket) key count.
C2_SequentialAdmission ==
    \A r \in Slots :
        (/\ req[r].quota \in {"pass", "reject"}
         /\ req[r].incr_at \div WINDOW = req[r].key[2])
        => /\ req[r].key = <<req[r].tenant_id, req[r].incr_at \div WINDOW>>
           /\ (req[r].quota = "pass") <=> (req[r].seq <= MaxReqsPerMin)
           /\ req[r].quota = "reject" =>
                (req[r].status = 429 /\ req[r].pc = "done" /\ ~req[r].dispatched)
           /\ req[r].quota = "pass" => req[r].status # 429

\* C2 witness: bucket 0 of t1 saw ceiling admissions and one more increment,
\* and the first request of t1 in bucket 1 is admitted.
C2_Witness ==
    /\ ~redis_failed
    /\ hits[<<"t1", 0>>] = MaxReqsPerMin + 1
    /\ admitted[<<"t1", 0>>] = MaxReqsPerMin
    /\ \E r \in Slots :
         /\ req[r].key = <<"t1", 1>>
         /\ req[r].incr_at \div WINDOW = 1
         /\ req[r].seq = 1
         /\ req[r].quota = "pass"

\* C3: every document placed in the system message of a dispatched request
\* of tenant T was indexed with tenant_id = T.
C3_TenantScopedRetrieval ==
    \A r \in Slots :
        req[r].dispatched =>
            \A i \in 1..Len(req[r].rag.docs) :
                req[r].rag.docs[i].metadata.tenant_id = req[r].tenant_id

\* C4: a request rejected with the rate-limit error has issued no retrieval
\* query.
C4_NoRetrievalWhenRateLimited ==
    \A r \in Slots : req[r].status = 429 => req[r].calls.rag = 0

BearerSpellings == {"bearer", "Bearer", "BEARER"}

\* C5: when a request is received, a missing or empty header, or one that is
\* not two words with a bearer scheme in any case, gives 401; a well-formed
\* header whose key no tenant owns gives 403; otherwise the handler runs with
\* the owning tenant.
C5_AuthOutcome ==
    [][\A r \in Slots :
         (req[r].pc = "idle" /\ req'[r].pc # "idle") =>
            LET h == req'[r].header
                malformed == \/ ~h.given
                             \/ h.empty
                             \/ Len(h.words) # 2
                             \/ h.words[1] \notin BearerSpellings
                owners == {t \in DOMAIN tenants :
                              tenants[t].api_key_hash = Sha256(h.words[2])}
            IN IF malformed
               THEN req'[r].status = 401 /\ req'[r].pc = "done"
               ELSE IF owners = {}
               THEN req'[r].status = 403 /\ req'[r].pc = "done"
               ELSE /\ req'[r].tenant_id \in owners
                    /\ req'[r].status = 0
                    /\ req'[r].pc = "handler"]_vars

\* C5 witness: an upload with an upper-case scheme and the key of a tenant
\* created after startup proceeds as that tenant.
C5_Witness ==
    \E r \in Slots :
        /\ req[r].endpoint = "upload"
        /\ req[r].header = HeaderOf(<<"BEARER", "k3">>)
        /\ req[r].tenant_id = "t3"
        /\ req[r].pc = "handler"

\* C6: a step that leaves a request rejected with 401 or 403 changes no quota
\* counter, and that request has issued no counter command.
C6_UnauthenticatedLeavesCounters ==
    [][\A r \in Slots :
         (req'[r].status \in {401, 403} /\ req'[r] # req[r]) =>
            /\ counters' = counters
            /\ hits' = hits
            /\ req'[r].calls = NoCalls
            /\ req'[r].key = NoKey]_vars

\* C6 witness: a request is rejected by authentication while a counter of an
\* earlier, authenticated request exists.
C6_Witness ==
    /\ \E r \in Slots : req[r].status \in {401, 403} /\ req[r].pc = "done"
    /\ \E k \in Keys : counters[k].count > 0

RegisteredSpellings == {"gemini", "olama", "openai", "Gemini", "OLAMA", "OpenAI"}

\* C7: an authenticated request naming an unregistered provider ends with
\* 400 and has made no retrieval query, no counter command and no backend
\* call.
C7_UnknownProvider ==
    \A r \in Slots :
        (/\ req[r].pc \notin {"idle", "handler"}
         /\ req[r].endpoint \in {"chat", "stream"}
         /\ req[r].tenant_id # None
         /\ req[r].body.provider \notin RegisteredSpellings)
        => /\ req[r].pc = "done"
           /\ req[r].status = 400
           /\ req[r].calls = NoCalls
           /\ ~req[r].dispatched

\* C7 witness: the rejected request asked for retrieval, had a user message,
\* and documents were indexed.
C7_Witness ==
    \E r \in Slots :
        /\ req[r].status = 400
        /\ req[r].body.rag
        /\ Truthy(LastUser(req[r].body.messages))
        /\ collection.docs # <<>>

\* C8: a request whose quota step found the counter store unreachable (not
\* configured, None after a failed startup, or a connection error) is
\* dispatched to the provider.
C8_FailOpen ==
    \A r \in Slots :
        (req[r].pc = "done" /\ req[r].quota \in {"unconfigured", "conn_error"})
        => req[r].dispatched /\ req[r].status = 200

\* C9: an authenticated request that names a registered provider and passed
\* (or skipped) the quota check ends with a successful response.
C9_OnlyHardRejections ==
    \A r \in Slots :
        (/\ req[r].pc = "done"
         /\ req[r].tenant_id # None
         /\ req[r].provider # None
         /\ req[r].quota \in {"pass", "unconfigured"})
        => req[r].status = 200

\* C10: with retrieval disabled, no message of role user, a retrieval error,
\* or zero retrieved documents, the assembled sequence, and the sequence
\* passed to the provider, equal the input sequence.
C10_NoAugmentation ==
    \A r \in Slots :
        (/\ req[r].pc \notin {"idle", "handler"}
         /\ req[r].provider # None
         /\ \/ ~req[r].body.rag
            \/ \A i \in 1..Len(req[r].body.messages) :
                 req[r].body.messages[i].role # "user"
            \/ req[r].rag.raised
            \/ req[r].rag.docs = <<>>)
        => /\ req[r].messages_to_send = req[r].body.messages
           /\ req[r].dispatched => req[r].sent = req[r].body.messages

\* C10 witness: a dispatched request whose retrieval query raised although
\* documents were indexed.
C10_Witness ==
    \E r \in Slots :
        /\ req[r].dispatched
        /\ req[r].rag.attempted
        /\ req[r].rag.raised
        /\ collection.docs # <<>>
        /\ req[r].sent = req[r].body.messages

\* C11: when retrieval returned d >= 1 documents, the assembled sequence, and
\* the sequence passed to the provider, is one system message whose content
\* is "Relevant documents:\n" followed by the d texts joined by a blank line
\* in retrieval order, followed by the input messages in their order; it is
\* one longer than the input.
C11_Augmentation ==
    \A r \in Slots :
        (/\ req[r].pc \notin {"idle", "handler"}
         /\ req[r].provider # None
         /\ req[r].rag.docs # <<>>)
        => LET docs == req[r].rag.docs
               input == req[r].body.messages
               out == req[r].messages_to_send
               texts == IF Len(docs) = 1 THEN docs[1].document
                        ELSE IF Len(docs) = 2
                        THEN docs[1].document \o "\n\n" \o docs[2].document
                        ELSE Join([i \in 1..Len(docs) |-> docs[i].document], "\n\n")
           IN /\ req[r].body.rag
              /\ Truthy(LastUser(input))
              /\ Len(out) = Len(input) + 1
              /\ out[1] = [role |-> "system",
                           content |-> "Relevant documents:\n" \o texts]
              /\ \A i \in 1..Len(input) : out[i + 1] = input[i]
              /\ req[r].dispatched => req[r].sent = out

\* C11 witness: two documents retrieved in the order B, A for a two-message
\* conversation, and the assembled sequence dispatched.
C11_Witness ==
    \E r \in Slots :
        /\ req[r].dispatched
        /\ Len(req[r].body.messages) = 2
        /\ Len(req[r].rag.docs) = 2
        /\ req[r].rag.docs[1].document = "B"
        /\ req[r].rag.docs[2].document = "A"
        /\ req[r].sent[1].content = "Relevant documents:\nB\n\nA"
        /\ req[r].sent[3] = req[r].body.messages[2]

\* C12: on /chat/stream with a backend that has no native streaming, when
\* send_messages returns a string for the messages sent, the chunks already
\* relayed followed by the chunks still to come concatenate to that string,
\* every chunk has at most 64 characters and every chunk but the last
\* exactly 64; the finished body is the whole string, and an empty string
\* gives no chunk.
C12_BaseStreamChunks ==
    /\ BaseChunks("") = <<>>
    /\ \A r \in Slots :
         (/\ req[r].endpoint = "stream"
          /\ req[r].provider \in {"olama", "openai"}
          /\ req[r].dispatched
          /\ ~req[r].cancelled
          /\ ~SendMessages(req[r].provider, req[r].sent, NoHttp).raised)
         => LET reply == SendMessages(req[r].provider, req[r].sent, NoHttp).text
                all == req[r].chunks \o req[r].pending
            IN /\ Join(all, "") = reply
               /\ \A i \in 1..Len(all) :
                    /\ Len(all[i]) <= 64
                    /\ Len(all[i]) >= 1
                    /\ i < Len(all) => Len(all[i]) = 64
               /\ req[r].pc = "done" => req[r].pending = <<>>

\* C12 witness: a finished stream of three chunks of 64, 64 and 1 characters
\* over a conversation that retrieval has extended.
C12_Witness ==
    \E r \in Slots :
        /\ req[r].endpoint = "stream"
        /\ req[r].pc = "done"
        /\ ~req[r].cancelled
        /\ req[r].provider = "openai"
        /\ req[r].rag.docs # <<>>
        /\ Len(req[r].chunks) = 3
        /\ Len(req[r].chunks[1]) = 64
        /\ Len(req[r].chunks[3]) = 1

\* A finished stream whose reply is exactly two full chunks.
C12_ExactMultiple ==
    \E r \in Slots :
        /\ req[r].endpoint = "stream"
        /\ req[r].pc = "done"
        /\ ~req[r].cancelled
        /\ req[r].provider = "olama"
        /\ Len(req[r].chunks) = 2
        /\ Len(req[r].chunks[2]) = 64

NoCredentialsPrefix == "(gemini) no credentials available"

\* C13: a /chat request answered by the Gemini send-once carries the ADC
\* bearer token and no key when ADC succeeds; carries the API key and no
\* bearer token when ADC fails or is absent and a key is configured; and with
\* neither credential returns the placeholder reply with status 200 and no
\* backend request, whatever the messages.
C13_CredentialFallback ==
    \A r \in Slots :
        (/\ req[r].endpoint = "chat"
         /\ req[r].provider = "gemini"
         /\ req[r].dispatched)
        => LET reqs == req[r].http_requests IN
           /\ Len(reqs) = req[r].calls.backend
           /\ IF env.google_adc = "ok"
              THEN /\ \A i \in 1..Len(reqs) :
                        reqs[i].authorization /\ ~reqs[i].key
                   /\ req[r].sent # <<>> => Len(reqs) = 1
              ELSE IF env.GEMINI_API_KEY
              THEN /\ \A i \in 1..Len(reqs) :
                        reqs[i].key /\ ~reqs[i].authorization
                   /\ req[r].sent # <<>> => Len(reqs) = 1
              ELSE /\ reqs = <<>>
                   /\ req[r].status = 200
                   /\ SubSeq(req[r].reply, 1, Len(NoCredentialsPrefix))
                        = NoCredentialsPrefix

\* C13 witness: with ADC failing and a key configured, a /chat request to
\* Gemini was sent with the key.
C13_Witness ==
    \E r \in Slots :
        /\ req[r].endpoint = "chat"
        /\ req[r].provider = "gemini"
        /\ env.google_adc = "fail"
        /\ env.GEMINI_API_KEY
        /\ req[r].http_requests = <<[authorization |-> FALSE, key |-> TRUE]>>
        /\ req[r].status = 200

\* With neither credential the placeholder is returned for an empty list.
C13_NoCredentials ==
    \E r \in Slots :
        /\ req[r].endpoint = "chat"
        /\ req[r].provider = "gemini"
        /\ env.google_adc = "absent"
        /\ ~env.GEMINI_API_KEY
        /\ req[r].sent = <<>>
        /\ req[r].dispatched
        /\ req[r].status = 200

StreamErrorPrefix == "(stream-error) "

IsStreamError(chunk) ==
    /\ Len(chunk) >= Len(StreamErrorPrefix)
    /\ SubSeq(chunk, 1, Len(StreamErrorPrefix)) = StreamErrorPrefix

\* C14: a finished stream whose backend request failed (network error or
\* non-200 status) ends with a chunk "(stream-error) <detail>", which is its
\* only diagnostic chunk, and issued no second backend request.
C14_SingleDiagnosticChunk ==
    \A r \in Slots :
        (/\ req[r].endpoint = "stream"
         /\ req[r].pc = "done"
         /\ ~req[r].cancelled
         /\ req[r].failed)
        => LET cs == req[r].chunks IN
           /\ cs # <<>>
           /\ IsStreamError(cs[Len(cs)])
           /\ \A i \in 1..(Len(cs) - 1) : ~IsStreamError(cs[i])
           /\ req[r].calls.backend = 1

C16_SameReceiptShape ==
    \A i, j \in 1..Len(enqueued) :
        (~enqueued[i].raised /\ ~enqueued[j].raised)
        => /\ DOMAIN enqueued[i].receipt = DOMAIN enqueued[j].receipt
           /\ DOMAIN enqueued[i].receipt
                = DOMAIN EnqueueReceipt([ids |-> enqueued[i].call.texts])
           /\ enqueued[i].receipt.enqueued = Len(enqueued[i].call.texts)

\* C17: the items of index_queue are in the order of the enqueue_documents
\* calls that created them, and the worker upserts them in that order.
C17_Fifo ==
    /\ \A i, j \in 1..Len(index_queue) :
          i < j => index_queue[i].n < index_queue[j].n
    /\ \A i \in 1..Len(index_queue) :
          worker.pc = "process" => worker.n < index_queue[i].n
    /\ \A i, j \in 1..Len(upsert_calls) :
          (i < j /\ upsert_calls[i].by = "worker" /\ upsert_calls[j].by = "worker")
          => upsert_calls[i].n < upsert_calls[j].n

\* C18: every upsert the worker makes carries the texts and the tenant of
\* the enqueue_documents call it stems from, in submission order, and its
\* ids: the ids given, else doc_0, doc_1, ... one per text; no call is
\* drained into more than one upsert.
C18_RoundTrip ==
    /\ \A i \in 1..Len(upsert_calls) :
          upsert_calls[i].by = "worker" =>
            LET c == upsert_calls[i]
                call == enqueued[c.n].call
            IN /\ enqueued[c.n].path = "queue"
               /\ c.texts = call.texts
               /\ c.tenant_id = call.tenant_id
               /\ Len(c.ids) = Len(c.texts)
               /\ call.ids.given => c.ids = call.ids.list
               /\ ~call.ids.given =>
                    \A k \in 1..Len(c.ids) : c.ids[k] = DocId(k - 1)
    /\ \A i, j \in 1..Len(upsert_calls) :
          (upsert_calls[i].by = "worker" /\ upsert_calls[j].by = "worker"
           /\ upsert_calls[i].n = upsert_calls[j].n) => i = j

\* C18 witness: a task of two texts without ids and without a tenant, and a
\* task with given ids, have both gone through the queue and the worker.
C18_Witness ==
    \E i, j \in 1..Len(upsert_calls) :
        /\ upsert_calls[i].by = "worker"
        /\ upsert_calls[i].texts = <<"A", "B">>
        /\ upsert_calls[i].ids = <<"doc_0", "doc_1">>
        /\ upsert_calls[i].tenant_id = None
        /\ ~upsert_calls[i].raised
        /\ upsert_calls[j].by = "worker"
        /\ upsert_calls[j].ids = <<"x">>
        /\ upsert_calls[j].tenant_id = "t1"

\* C19: with Pinecone not configured and Chroma available, upsert_documents
\* returns without raising; it raises only when neither is available.
C19_SecondaryFallback ==
    \A i \in 1..Len(upsert_calls) :
        /\ (~env.use_pinecone /\ env.chromadb) => ~upsert_calls[i].raised
        /\ (upsert_calls[i].by = "enqueue" /\ upsert_calls[i].raised)
             => (~env.use_pinecone /\ ~env.chromadb)

\* C20: every task for which a receipt of the queue path was returned is
\* waiting to be pushed, in the queue, held by the worker, or upserted; and
\* it is upserted at most once.
C20_ExactlyOnce ==
    \A n \in 1..Len(enqueued) :
        enqueued[n].path = "queue" =>
            LET done == {i \in 1..Len(upsert_calls) :
                            /\ upsert_calls[i].by = "worker"
                            /\ upsert_calls[i].n = n
                            /\ ~upsert_calls[i].raised}
            IN /\ Cardinality(done) <= 1
               /\ \/ \E i \in 1..Len(pushes) :
                       pushes[i].n = n /\ pushes[i].pc \in {"scheduled", "client"}
                  \/ \E i \in 1..Len(index_queue) : index_queue[i].n = n
                  \/ worker.pc = "process" /\ worker.n = n
                  \/ done # {}

\* C21: the worker never leaves its loop, whatever error it meets, and every
\* item that is in index_queue, before or after an error, is eventually
\* taken from the queue by the worker.
C21_WorkerSurvivesErrors ==
    /\ [](worker.pc \in {"blpop", "process", "backoff"})
    /\ \A n \in 0..WorkerTasks :
         (\E i \in 1..Len(index_queue) : index_queue[i].n = n)
            ~> (worker.pc = "process" /\ worker.n = n)

\* C21 witness: after an item it could not decode the worker holds a task
\* that was enqueued after that error.
C21_Witness ==
    /\ worker.last_error = "decode"
    /\ worker.pc = "process"
    /\ worker.n > worker.errors_at

\* The same after a failed read of the queue and after a failed upsert.
C21_AfterReadError ==
    /\ worker.last_error = "read"
    /\ worker.pc = "process"
    /\ worker.n > worker.errors_at

\* After a failed upsert the worker has taken the next item of the queue.
C21_AfterUpsertError ==
    /\ worker.last_error = "upsert"
    /\ worker.pc = "process"
    /\ worker.errors_at = WorkerTasks

\* C22: a finished stream from Gemini, with neither ADC nor an API key
\* available, has issued no HTTP request, and its chunks together are the
\* credential placeholder.
C22_StreamNoCredentials ==
    \A r \in Slots :
        (/\ req[r].endpoint = "stream"
         /\ req[r].provider = "gemini"
         /\ GeminiAuthUsed = None
         /\ req[r].dispatched
         /\ req[r].sent # <<>>
         /\ req[r].pc = "done"
         /\ ~req[r].cancelled)
        => /\ req[r].http_requests = <<>>
           /\ req[r].calls.backend = 0
           /\ LET text == Join(req[r].chunks, "") IN
              /\ Len(text) >= Len(NoCredentialsPrefix)
              /\ SubSeq(text, 1, Len(NoCredentialsPrefix)) = NoCredentialsPrefix

\* EXPIRE is issued only by a request whose INCR returned 1, and at most once.
C23_OnlyFirstSetsExpiry ==
    \A r \in Slots :
        req[r].calls.expire > 0 => req[r].cur = 1 /\ req[r].calls.expire = 1

\* C23: the expiry of a quota key is set by the request whose increment
\* returned 1 and by no other; once that request has finished, normally or
\* with an error between the increment and the expire, the key it created
\* has an expiry for as long as it exists.
C23_ExpiryAlwaysSet ==
    /\ C23_OnlyFirstSetsExpiry
    /\ \A k \in Keys :
         (/\ Live(counters[k], now)
          /\ \E r \in Slots :
                req[r].key = k /\ req[r].cur = 1 /\ req[r].pc = "done"
          /\ \A r \in Slots :
                (req[r].key = k /\ req[r].cur = 1) => req[r].pc # "expire")
         => counters[k].expire_at # NoExpiry

\* An id list that matches its texts: one id per text, no id twice.
Aligned(texts, ids) ==
    /\ Len(ids) = Len(texts)
    /\ \A i, j \in 1..Len(ids) : ids[i] = ids[j] => i = j

\* With ids omitted, both functions generate doc_0 .. doc_{n-1}.
C24_AutoIdsAligned ==
    /\ \A i \in 1..Len(pushes) :
         (pushes[i].pc # "foreign" /\ ~enqueued[pushes[i].n].call.ids.given)
         => Aligned(pushes[i].task.texts, pushes[i].task.ids)
    /\ \A i \in 1..Len(upsert_calls) :
         ~enqueued[upsert_calls[i].n].call.ids.given
         => Aligned(upsert_calls[i].texts, upsert_calls[i].ids)

\* C24: every task built by enqueue_documents and every call of
\* upsert_documents has one id per text and no id twice, whether the ids
\* were generated (ids omitted or empty) or supplied by the caller.
C24_IdsAligned ==
    /\ \A i \in 1..Len(pushes) :
         pushes[i].pc # "foreign"
         => Aligned(pushes[i].task.texts, pushes[i].task.ids)
    /\ \A i \in 1..Len(upsert_calls) :
         Aligned(upsert_calls[i].texts, upsert_calls[i].ids)

\* C25: a streaming request to Gemini issues at most one request to the
\* backend, also when the stream fails, and what it relayed before the
\* failure is not followed by the text of a second reply.
C25_AtMostOneGeneration ==
    \A r \in Slots :
        (req[r].endpoint = "stream" /\ req[r].provider = "gemini")
        => /\ req[r].calls.backend <= 1
           /\ Len(req[r].http_requests) <= 1
           /\ req[r].failed =>
                \A i \in 1..Len(req[r].chunks) :
                    req[r].chunks[i] \in Range(UpstreamChunks)
                    => \A j \in (i + 1)..Len(req[r].chunks) :
                          req[r].chunks[j] \in Range(UpstreamChunks)

\* A stream that broke off after its first chunk, followed by the whole
\* reply of the second request.
C25_ResentCopy ==
    \E r \in Slots :
        /\ req[r].endpoint = "stream"
        /\ req[r].provider = "gemini"
        /\ req[r].chunks = <<"Hel", "Hello">>
        /\ req[r].calls.backend = 2

\* What a request meets on its way to the dispatch: its tenant and body, what
\* the retrieval returns, which counter command fails, and whether the
\* counter value is the first of its key and whether it is over the ceiling.
PipelineInputs(rec) ==
    [tenant_id |-> rec.tenant_id,
     body |-> rec.body,
     retrieval |-> [raised |-> rec.rag.raised, docs |-> rec.rag.docs],
     failing |-> IF rec.quota # "conn_error" THEN "none"
                 ELSE IF rec.calls.expire > 0 THEN "expire" ELSE "incr",
     first |-> rec.cur = 1,
     over |-> Exceeds(rec.cur, MaxReqsPerMin)]

\* What the handler has done when it dispatches or rejects: the steps it
\* ran, the rejection if any, and the list it hands to the provider.
PipelineOutcome(rec) ==
    [provider |-> rec.provider,
     retrieved |-> rec.rag.attempted,
     calls |-> [rag |-> rec.calls.rag, incr |-> rec.calls.incr,
                expire |-> rec.calls.expire],
     quota |-> rec.quota,
     rejection |-> IF rec.pc = "done" /\ ~rec.dispatched /\ ~rec.cancelled
                   THEN <<rec.status, rec.detail>> ELSE <<0, "">>,
     messages_to_send |-> rec.messages_to_send]

\* The handler is past its quota block.
PastQuota(rec) ==
    /\ rec.endpoint \in {"chat", "stream"}
    /\ rec.pc \in {"send", "streaming", "done"}

\* The order of the steps of one request.
StepOrder(endpoint) ==
    { <<"idle", "handler">>, <<"idle", "done">>,
      <<"handler", "incr">>, <<"handler", "send">>, <<"handler", "done">>,
      <<"incr", "expire">>, <<"incr", "send">>, <<"incr", "done">>,
      <<"expire", "send">>, <<"expire", "done">>,
      <<"done", "idle">> }
    \cup (IF endpoint = "chat" THEN {<<"send", "done">>}
          ELSE {<<"send", "streaming">>, <<"streaming", "done">>})

\* One step of a request keeps the order provider lookup, retrieval and
\* assembly, INCR, EXPIRE, dispatch, and hands the assembled list over.
InOrder(a, b) ==
    /\ a.pc # b.pc => <<a.pc, b.pc>> \in StepOrder(b.endpoint)
    /\ b.pc # "idle" =>
         /\ b.calls.rag # a.calls.rag => a.pc = "handler"
         /\ b.messages_to_send # a.messages_to_send => a.pc = "handler"
         /\ b.calls.incr # a.calls.incr => a.pc = "incr"
         /\ b.calls.expire # a.calls.expire => a.pc = "expire"
         /\ (b.dispatched /\ ~a.dispatched) =>
               /\ a.pc \in {"send", "streaming"}
               /\ b.sent = a.messages_to_send

C26_BothRateLimited ==
    /\ req[1].endpoint = "chat"
    /\ req[2].endpoint = "stream"
    /\ req[1].body = req[2].body
    /\ req[1].status = 429
    /\ req[2].status = 429

\* Both endpoints reject an unknown provider with 400.
C26_BothUnknownProvider ==
    /\ req[1].endpoint = "chat"
    /\ req[2].endpoint = "stream"
    /\ req[1].status = 400
    /\ req[2].status = 400

====
